---- MODULE Spec2Model ----
(***************************************************************************)
(* A model of the two behaviours of the joker203 API that carry design     *)
(* decisions: fetchRandomJoke (ordered provider fallback, then the local   *)
(* Joke table) and updateUser (replacement of a user's role assignments),  *)
(* together with the readers getUserDetails / listUsers and the request    *)
(* handlers of server.py that wrap them.                                   *)
(***************************************************************************)
EXTENDS Integers, Sequences, FiniteSets, TLC

(***************************************************************************)
(* Bounds of the model.                                                    *)
(***************************************************************************)
MaxProviders == 3

MaxJokes == 1

MaxRoles == 2

MaxInitRoles == 1

NULL == "None"

(***************************************************************************)
(* Joke resolver: state.                                                   *)
(*   JokeSource    the JokeSource table, in storage order                  *)
(*   Joke          the local Joke table                                    *)
(*   web           what each endpoint answers to a GET                     *)
(*   jpc           position of the fetchRandomJoke coroutine               *)
(*   joke_sources  the list find_many() returned                           *)
(*   idx           position of the for loop in joke_sources                *)
(*   requested     endpoints client.get was called on, in call order       *)
(*   local_queries number of Joke.find_first() calls made                  *)
(*   outcome       how fetchRandomJoke ended                               *)
(***************************************************************************)
VARIABLES JokeSource, Joke, web, jpc, joke_sources, idx, requested,
          local_queries, outcome

jvars == <<JokeSource, Joke, web, jpc, joke_sources, idx, requested,
           local_queries, outcome>>

\* Joke texts external providers serve, and the text and tags of local rows.
Contents == {"X", "Y"}

LocalContents == {"L"}

LocalTags == {NULL, "db"}

\* A JokeSource row: provider i is named <<"provider", i>> and has endpoint i.
SourceRow(i) == [name |-> <<"provider", i>>, endpoint |-> i]

\* A response body: a JSON object (with or without the "joke" key, whose
\* value is a string), a JSON array, or text that is no JSON at all.
NoKey == "<missing>"

Bodies ==
    [kind : {"object"}, joke : Contents \cup {NoKey}]
        \cup [kind : {"array", "text"}, joke : {NoKey}]

\* What a GET on an endpoint produces: a transport failure (connection
\* error, timeout, bad URL) or a response with a status and a body.
Responses ==
    [transport : {FALSE}, status : {200}, body : Bodies]
        \cup [transport : {FALSE}, status : {500},
              body : {[kind |-> "text", joke |-> NoKey]}]
        \cup [transport : {TRUE}, status : {0},
              body : {[kind |-> "text", joke |-> NoKey]}]

\* The outcome of one pass of the loop body for one provider:
\* client.get, raise_for_status, response.json(), ["joke"], RandomJokeResponse.
\* json() raises json.JSONDecodeError on text that is no JSON; ["joke"] raises
\* KeyError on an object without the key and TypeError on a list.
\*   "return"  the body yielded a joke and the response model was built
\*   "caught"  an exception of the except clause: the loop continues
\*   "raised"  any other exception: it leaves fetchRandomJoke
Attempt(resp) ==
    IF resp.transport
    THEN [kind |-> "caught", exc |-> "httpx.RequestError", joke |-> NoKey]
    ELSE IF resp.status < 200 \/ resp.status > 299
    THEN [kind |-> "caught", exc |-> "httpx.HTTPStatusError", joke |-> NoKey]
    ELSE IF resp.body.kind = "text"
    THEN [kind |-> "raised", exc |-> "json.JSONDecodeError", joke |-> NoKey]
    ELSE IF resp.body.kind = "array"
    THEN [kind |-> "raised", exc |-> "TypeError", joke |-> NoKey]
    ELSE IF resp.body.joke = NoKey
    THEN [kind |-> "caught", exc |-> "KeyError", joke |-> NoKey]
    ELSE [kind |-> "return", exc |-> NULL, joke |-> resp.body.joke]

\* The values fetchRandomJoke ends with.
Returned(content, source) ==
    [kind |-> "return", joke_content |-> content, source |-> source,
     exc |-> NULL]

Raised(exc) ==
    [kind |-> "raise", joke_content |-> NULL, source |-> NULL, exc |-> exc]

Pending == [kind |-> "pending", joke_content |-> NULL, source |-> NULL,
            exc |-> NULL]

Unavailable == "No available jokes in external sources or local database."

(***************************************************************************)
(* User store and the request handlers working on it: state.               *)
(*   User      the User table: the email of every existing user id         *)
(*   UserRole  the UserRole table: per userId, the roles of its rows in    *)
(*             insertion order (row ids are left out)                      *)
(*   pc        position of each in-flight request handler                  *)
(*   userId, email, roles   the arguments of the updateUser call in flight  *)
(*   user      what find_unique(include roles) returned to updateUser      *)
(*   created   number of passes of the "for role in roles" loop completed  *)
(*   res       what the request handler of server.py answered              *)
(***************************************************************************)
VARIABLES User, UserRole, pc, userId, email, roles, user, created, res

uvars == <<User, UserRole, pc, userId, email, roles, user, created, res>>

vars == <<jvars, uvars>>

\* Request handlers in flight at the same time.
Procs == {"p1", "p2"}

\* User ids a request may name; ExistingIds are the rows of the User table.
UserIds == {"u1", "u2", "u3"}

ExistingIds == {"u1", "u2"}

\* prisma.enums.Role, two of its values.
Roles == {"ADMIN", "USER"}

\* The email argument: absent, empty, or a new address.
EmailArgs == {NULL, "", "new@x"}

SeqsUpTo(S, n) == UNION {[1..m -> S] : m \in 0..n}

RoleLists == SeqsUpTo(Roles, MaxRoles)

Count(s, r) == Cardinality({i \in DOMAIN s : s[i] = r})

\* Two lists of roles hold the same roles with the same multiplicities.
SameRoles(s, t) == \A r \in Roles : Count(s, r) = Count(t, r)

Range(s) == {s[i] : i \in DOMAIN s}

\* Python truthiness of the email argument ("if email") and of a list.
Truthy(e) == e # NULL /\ e # ""

NoUser == [id |-> NULL, email |-> NULL, roles |-> <<>>]

\* User.prisma().find_unique(where={"id": u}, include={"roles": True})
find_unique(u) ==
    IF u \in DOMAIN User
    THEN [id |-> u, email |-> User[u], roles |-> UserRole[u]]
    ELSE NoUser

\* A delete that removes one row of the user only.
delete_first(table, u) ==
    [table EXCEPT ![u] = IF @ = <<>> THEN <<>> ELSE Tail(@)]

\* A delete without its where clause: the rows of every user go.
delete_many_all(table, u) == [x \in DOMAIN table |-> <<>>]

\* UserRole.prisma().delete_many(where={"userId": u})
delete_many(table, u) == [table EXCEPT ![u] = <<>>]

\* A create that skips a role the user already holds (an upsert).
create_if_absent(table, u, r) ==
    [table EXCEPT ![u] = IF r \in Range(@) THEN @ ELSE Append(@, r)]

\* UserRole.prisma().create(data={"role": r, "userId": u})
create(table, u, r) == [table EXCEPT ![u] = Append(@, r)]

\* User.prisma().update(where={"id": u}, data={"email": e})
update(table, u, e) == [table EXCEPT ![u] = e]

\* A lookup whose result is never taken for None.
NotFound_never(usr) == FALSE

\* "if not user": the lookup found no row.
NotFound(usr) == usr.id = NULL

\* UpdateUserResponse; updatedFields is a dict, given by its keys and values.
NoFields == [keys |-> {}, email |-> NULL, roles |-> <<>>]

UpdateUserResponse(ok, u, fields) ==
    [kind |-> "UpdateUserResponse", success |-> ok, userId |-> u,
     updatedFields |-> fields]

\* The except branch of a request handler: Response(status_code=500).
ErrorResponse(e) == [kind |-> "Response", status_code |-> 500, error |-> e]

NoRes == [kind |-> "none"]

UserInit ==
    /\ User = [u \in ExistingIds |-> "old@x"]
    /\ \E t \in [ExistingIds -> SeqsUpTo(Roles, MaxInitRoles)] :
          UserRole = [u \in UserIds |-> IF u \in ExistingIds THEN t[u] ELSE <<>>]
    /\ pc = [p \in Procs |-> "idle"]
    /\ userId = [p \in Procs |-> NULL]
    /\ email = [p \in Procs |-> NULL]
    /\ roles = [p \in Procs |-> <<>>]
    /\ user = [p \in Procs |-> NoUser]
    /\ created = [p \in Procs |-> 0]
    /\ res = [p \in Procs |-> NoRes]

JokeIdle ==
    /\ JokeSource = <<>>
    /\ web = <<>>
    /\ Joke = <<>>
    /\ jpc = "find_many"
    /\ joke_sources = <<>>
    /\ idx = 1
    /\ requested = <<>>
    /\ local_queries = 0
    /\ outcome = Pending

UserIdle ==
    /\ User = [u \in ExistingIds |-> "old@x"]
    /\ UserRole = [u \in UserIds |-> <<>>]
    /\ pc = [p \in Procs |-> "idle"]
    /\ userId = [p \in Procs |-> NULL]
    /\ email = [p \in Procs |-> NULL]
    /\ roles = [p \in Procs |-> <<>>]
    /\ user = [p \in Procs |-> NoUser]
    /\ created = [p \in Procs |-> 0]
    /\ res = [p \in Procs |-> NoRes]

JokeTables ==
    UNION {[1..n -> [content : LocalContents, source : LocalTags]] :
           n \in 0..MaxJokes}

JokeInit ==
    /\ \E n \in 0..MaxProviders :
          /\ JokeSource = [i \in 1..n |-> SourceRow(i)]
          /\ web \in [1..n -> Responses]
    /\ Joke \in JokeTables
    /\ jpc = "find_many"
    /\ joke_sources = <<>>
    /\ idx = 1
    /\ requested = <<>>
    /\ local_queries = 0
    /\ outcome = Pending
    /\ UserIdle

\* A resolver that goes to the Joke table first, whatever find_many returned.
FindSources_local_first ==
    /\ jpc = "find_many"
    /\ joke_sources' = JokeSource
    /\ idx' = 1
    /\ jpc' = "find_first"
    /\ UNCHANGED <<JokeSource, Joke, web, requested, local_queries, outcome>>
    /\ UNCHANGED uvars

\* joke_sources = await JokeSource.prisma().find_many(); if joke_sources: for ...
FindSources ==
    /\ jpc = "find_many"
    /\ joke_sources' = JokeSource
    /\ idx' = 1
    /\ jpc' = IF JokeSource # <<>> THEN "for" ELSE "find_first"
    /\ UNCHANGED <<JokeSource, Joke, web, requested, local_queries, outcome>>
    /\ UNCHANGED uvars

\* One pass of the for loop: the try block and its except clause.
TryProvider ==
    /\ jpc = "for"
    /\ idx <= Len(joke_sources)
    /\ LET source == joke_sources[idx]
           got == Attempt(web[source.endpoint])
       IN  /\ requested' = Append(requested, source.endpoint)
           /\ CASE got.kind = "return" ->
                     /\ outcome' = Returned(got.joke, source.name)
                     /\ jpc' = "done"
                     /\ idx' = idx
                [] got.kind = "caught" ->
                     /\ outcome' = outcome
                     /\ idx' = idx + 1
                     /\ jpc' = IF idx + 1 > Len(joke_sources)
                               THEN "find_first" ELSE "for"
                [] got.kind = "raised" ->
                     /\ outcome' = Raised(got.exc)
                     /\ jpc' = "done"
                     /\ idx' = idx
    /\ UNCHANGED <<JokeSource, Joke, web, joke_sources, local_queries>>
    /\ UNCHANGED uvars

\* joke_record = await Joke.prisma().find_first(): some row of the table
\* (no ordering is asked for), or None when the table is empty.
FindLocalJoke ==
    /\ jpc = "find_first"
    /\ local_queries' = local_queries + 1
    /\ jpc' = "done"
    /\ IF Joke = <<>>
       THEN outcome' = Raised(Unavailable)
       ELSE \E r \in 1..Len(Joke) :
               outcome' = Returned(Joke[r].content, Joke[r].source)
    /\ UNCHANGED <<JokeSource, Joke, web, joke_sources, idx, requested>>
    /\ UNCHANGED uvars

JokeNext == FindSources \/ TryProvider \/ FindLocalJoke

JokeSpec == JokeInit /\ [][JokeNext]_vars

(***************************************************************************)
(* updateUser, one action per awaited store call.                          *)
(***************************************************************************)

\* api_put_updateUser is entered with its arguments.
CallUpdateUser(p) ==
    /\ pc[p] = "idle"
    /\ \E u \in UserIds, e \in EmailArgs, R \in RoleLists :
          /\ userId' = [userId EXCEPT ![p] = u]
          /\ email' = [email EXCEPT ![p] = e]
          /\ roles' = [roles EXCEPT ![p] = R]
    /\ pc' = [pc EXCEPT ![p] = "find_unique"]
    /\ user' = [user EXCEPT ![p] = NoUser]
    /\ created' = [created EXCEPT ![p] = 0]
    /\ res' = [res EXCEPT ![p] = NoRes]
    /\ UNCHANGED <<User, UserRole>>
    /\ UNCHANGED jvars

\* updated_roles_data when the loop has made n passes (roleId left out).
updated_roles_data(R, n) == SubSeq(R, 1, n)

\* update_data: {"email": email} if email else {}, given by its keys. The
\* function builds it and its return statement does not read it.
update_data(e) == IF Truthy(e) THEN {"email"} ELSE {}

\* The return statement that ends updateUser: the dict literal
\* {"email": email, "roles": updated_roles_data}, both keys always present.
Success(u, e, data) ==
    UpdateUserResponse(TRUE, u,
        [keys |-> {"email", "roles"}, email |-> e, roles |-> data])

\* Where updateUser goes once the role block is behind it: "if email".
AfterRoles(e) == IF Truthy(e) THEN "update" ELSE "done"

\* user = await find_unique(...); if not user: return ...; if roles: ...
FindUser(p) ==
    /\ pc[p] = "find_unique"
    /\ LET usr == find_unique(userId[p])
           nxt == IF NotFound(usr) THEN "done"
                  ELSE IF roles[p] # <<>> THEN "delete_many"
                  ELSE AfterRoles(email[p])
       IN  /\ user' = [user EXCEPT ![p] = usr]
           /\ pc' = [pc EXCEPT ![p] = nxt]
           /\ res' = [res EXCEPT ![p] =
                 IF NotFound(usr)
                 THEN UpdateUserResponse(FALSE, userId[p], NoFields)
                 ELSE IF nxt = "done"
                 THEN Success(userId[p], email[p], <<>>)
                 ELSE NoRes]
    /\ UNCHANGED <<User, UserRole, userId, email, roles, created>>
    /\ UNCHANGED jvars

\* await UserRole.prisma().delete_many(where={"userId": userId})
DeleteRoles(p) ==
    /\ pc[p] = "delete_many"
    /\ UserRole' = delete_many(UserRole, userId[p])
    /\ pc' = [pc EXCEPT ![p] = "create"]
    /\ UNCHANGED <<User, userId, email, roles, user, created, res>>
    /\ UNCHANGED jvars

\* One pass of "for role in roles": await UserRole.prisma().create(...)
CreateRole(p) ==
    /\ pc[p] = "create"
    /\ created[p] < Len(roles[p])
    /\ LET n == created[p] + 1
           nxt == IF n < Len(roles[p]) THEN "create" ELSE AfterRoles(email[p])
       IN  /\ UserRole' = create(UserRole, userId[p], roles[p][n])
           /\ created' = [created EXCEPT ![p] = n]
           /\ pc' = [pc EXCEPT ![p] = nxt]
           /\ res' = [res EXCEPT ![p] =
                 IF nxt = "done"
                 THEN Success(userId[p], email[p],
                              updated_roles_data(roles[p], n))
                 ELSE NoRes]
    /\ UNCHANGED <<User, userId, email, roles, user>>
    /\ UNCHANGED jvars

\* await User.prisma().update(where={"id": userId}, data={"email": email})
UpdateEmail(p) ==
    /\ pc[p] = "update"
    /\ User' = update(User, userId[p], email[p])
    /\ pc' = [pc EXCEPT ![p] = "done"]
    /\ res' = [res EXCEPT ![p] =
          Success(userId[p], email[p],
                  updated_roles_data(roles[p], created[p]))]
    /\ UNCHANGED <<UserRole, userId, email, roles, user, created>>
    /\ UNCHANGED jvars

\* An awaited store write raises (connection lost, constraint, timeout):
\* nothing in updateUser catches it, the except branch of
\* api_put_updateUser answers 500.
StoreFailure(p) ==
    /\ pc[p] \in {"delete_many", "create", "update"}
    /\ pc' = [pc EXCEPT ![p] = "done"]
    /\ res' = [res EXCEPT ![p] = ErrorResponse(pc[p])]
    /\ UNCHANGED <<User, UserRole, userId, email, roles, user, created>>
    /\ UNCHANGED jvars

(***************************************************************************)
(* The readers: one store read each.                                       *)
(***************************************************************************)

UserDetailsResponse(usr) ==
    [kind |-> "UserDetailsResponse", id |-> usr.id, email |-> usr.email,
     roles |-> usr.roles]

\* getUserDetails: find_unique with the roles included, ValueError if None.
GetUserDetails(p) ==
    /\ pc[p] = "idle"
    /\ \E u \in UserIds :
          res' = [res EXCEPT ![p] =
                IF NotFound(find_unique(u))
                THEN ErrorResponse("User not found.")
                ELSE UserDetailsResponse(find_unique(u))]
    /\ pc' = [pc EXCEPT ![p] = "done"]
    /\ UNCHANGED <<User, UserRole, userId, email, roles, user, created>>
    /\ UNCHANGED jvars

\* listUsers: find_many with the roles included, every user in the answer.
ListUsers(p) ==
    /\ pc[p] = "idle"
    /\ res' = [res EXCEPT ![p] =
          [kind |-> "GetUsersResponse",
           users |-> [u \in DOMAIN User |-> UserDetailsResponse(find_unique(u))]]]
    /\ pc' = [pc EXCEPT ![p] = "done"]
    /\ UNCHANGED <<User, UserRole, userId, email, roles, user, created>>
    /\ UNCHANGED jvars

\* The handler has answered; the task is free for the next request.
Return(p) ==
    /\ pc[p] = "done"
    /\ pc' = [pc EXCEPT ![p] = "idle"]
    /\ userId' = [userId EXCEPT ![p] = NULL]
    /\ email' = [email EXCEPT ![p] = NULL]
    /\ roles' = [roles EXCEPT ![p] = <<>>]
    /\ user' = [user EXCEPT ![p] = NoUser]
    /\ created' = [created EXCEPT ![p] = 0]
    /\ res' = [res EXCEPT ![p] = NoRes]
    /\ UNCHANGED <<User, UserRole>>
    /\ UNCHANGED jvars

\* No other request is in flight.
Alone(p) == \A q \in Procs \ {p} : pc[q] = "idle"

Init == UserInit /\ JokeIdle

\* Two requests in flight, their store calls interleaved in any order.
Next ==
    \E p \in Procs :
        \/ CallUpdateUser(p)
        \/ FindUser(p)
        \/ DeleteRoles(p)
        \/ CreateRole(p)
        \/ UpdateEmail(p)
        \/ StoreFailure(p)
        \/ GetUserDetails(p)
        \/ ListUsers(p)

Spec == Init /\ [][Next]_vars

\* Requests served one after the other, each to its end before the next.
SeqNext ==
    \E p \in Procs :
        \/ Alone(p) /\ CallUpdateUser(p)
        \/ Alone(p) /\ FindUser(p)
        \/ Alone(p) /\ DeleteRoles(p)
        \/ Alone(p) /\ CreateRole(p)
        \/ Alone(p) /\ UpdateEmail(p)
        \/ Alone(p) /\ StoreFailure(p)
        \/ Alone(p) /\ GetUserDetails(p)
        \/ Alone(p) /\ ListUsers(p)
        \/ Alone(p) /\ Return(p)

SeqSpec == Init /\ [][SeqNext]_vars

(***************************************************************************)
(* Properties of fetchRandomJoke, checked under JokeSpec.                  *)
(***************************************************************************)

\* What the endpoint of the k-th JokeSource row answers.
Answer(k) == web[JokeSource[k].endpoint]

\* A well-formed payload: a response arrived, its status is 2xx and its
\* body is a JSON object whose "joke" is a string.
WellFormed(resp) ==
    /\ ~resp.transport
    /\ resp.status \in 200..299
    /\ resp.body.kind = "object"
    /\ resp.body.joke \in Contents

\* Provider k is the first of the list, in list order, to answer well-formed.
FirstWellFormed(k) ==
    /\ WellFormed(Answer(k))
    /\ \A j \in 1..(k - 1) : ~WellFormed(Answer(j))

NoProviderSucceeds == \A k \in DOMAIN JokeSource : ~WellFormed(Answer(k))

\* C1: when provider k is the first of the list to answer with a well-formed
\* payload, fetchRandomJoke returns k's joke with source = k's name, and no
\* provider after k is requested.
C1_FirstSuccessShortCircuit ==
    jpc = "done" =>
        \A k \in DOMAIN JokeSource :
            FirstWellFormed(k) =>
                /\ outcome = Returned(Answer(k).body.joke, JokeSource[k].name)
                /\ \A j \in (k + 1)..Len(JokeSource) :
                      JokeSource[j].endpoint \notin Range(requested)

\* C4: when every provider fails (or there is none) and the Joke table holds
\* a row, fetchRandomJoke returns a row's content with that row's own source.
C4_LocalFallback ==
    (jpc = "done" /\ NoProviderSucceeds /\ Joke # <<>>) =>
        \E r \in DOMAIN Joke : outcome = Returned(Joke[r].content, Joke[r].source)

\* C5: when no provider succeeds and the Joke table is empty, fetchRandomJoke
\* ends in the Unavailable failure and returns no joke.
C5_Unavailable ==
    (jpc = "done" /\ NoProviderSucceeds /\ Joke = <<>>) =>
        outcome = Raised(Unavailable)

\* C6: the failure of a single provider never is what fetchRandomJoke ends
\* with: the only failure the caller can see is Unavailable.
C6_ProviderFailureNeverSurfaced ==
    (jpc = "done" /\ outcome.kind = "raise") => outcome.exc = Unavailable

(***************************************************************************)
(* Properties of updateUser.                                               *)
(***************************************************************************)

\* Reading the role assignments of user u: find_unique with the roles.
ReadRoles(u) == find_unique(u).roles

\* Handler p has answered an updateUser call with success = True.
Succeeded(p) ==
    /\ pc[p] = "done"
    /\ res[p].kind = "UpdateUserResponse"
    /\ res[p].success

\* Roles the user held when the call looked the user up and that the call
\* did not resupply.
NotResupplied(p) == Range(user[p].roles) \ Range(roles[p])

\* C2, as claimed: after a successful updateUser(u, _, R), for every R (the
\* empty list included), the roles read for u are exactly R, with the same
\* multiplicities.
C2_ReadYieldsRequested ==
    \A p \in Procs :
        Succeeded(p) => SameRoles(ReadRoles(userId[p]), roles[p])

\* C2, amended: the same for every non-empty R.
C2_ReadYieldsRequestedNonEmpty ==
    \A p \in Procs :
        (Succeeded(p) /\ roles[p] # <<>>) =>
            SameRoles(ReadRoles(userId[p]), roles[p])

\* C2 witness: a successful call that asked for a role twice, on a user
\* whose roles were different before.
C2_Witness ==
    \E p \in Procs :
        /\ Succeeded(p)
        /\ roles[p] = <<"ADMIN", "ADMIN">>
        /\ user[p].roles = <<"USER">>

\* C3: updateUser on a userId with no User row returns
\* {success: False, userId, updatedFields: {}} as a value, never reaches a
\* store write, and no UserRole row exists for that id.
C3_UnknownUserReported ==
    /\ \A p \in Procs :
          userId[p] \in UserIds \ DOMAIN User =>
              /\ pc[p] \in {"find_unique", "done"}
              /\ pc[p] = "done" =>
                    res[p] = UpdateUserResponse(FALSE, userId[p], NoFields)
    /\ \A u \in UserIds \ DOMAIN User : UserRole[u] = <<>>

\* C3 witness: a call for an unknown user that supplied roles and an email
\* has been answered.
C3_Witness ==
    \E p \in Procs :
        /\ pc[p] = "done"
        /\ userId[p] \notin DOMAIN User
        /\ roles[p] # <<>>
        /\ Truthy(email[p])
        /\ res[p].kind = "UpdateUserResponse"

\* C7, as claimed: after a successful updateUser with R2 that follows
\* earlier calls, for any R2 (the empty list included), no role held before
\* the call and absent from R2 is still stored.
C7_NoResidue ==
    \A p \in Procs :
        Succeeded(p) =>
            NotResupplied(p) \cap Range(UserRole[userId[p]]) = {}

\* C7, amended: the same for every non-empty R2.
C7_NoResidueNonEmpty ==
    \A p \in Procs :
        (Succeeded(p) /\ roles[p] # <<>>) =>
            NotResupplied(p) \cap Range(UserRole[userId[p]]) = {}

\* C7 witness: a successful call with a non-empty R2 on a user who held two
\* roles, one of them absent from R2.
C7_Witness ==
    \E p \in Procs :
        /\ Succeeded(p)
        /\ roles[p] = <<"USER">>
        /\ user[p].roles = <<"USER", "ADMIN">>

\* The roles of user u in a reader's answer.
Observed(r, u) ==
    IF r.kind = "UserDetailsResponse" THEN r.roles ELSE r.users[u].roles

\* The answer r of a reader covers user u.
Covers(r, u) ==
    \/ r.kind = "UserDetailsResponse" /\ r.id = u
    \/ r.kind = "GetUsersResponse" /\ u \in DOMAIN r.users

\* C8: a reader (getUserDetails, listUsers) running while an updateUser is
\* in flight sees the user's roles as they were before the call or as the
\* call asked for them, never anything in between.
C8_ReplaceAtomicToReaders ==
    \A p \in Procs, q \in Procs :
        (/\ p # q
         /\ pc[p] \in {"delete_many", "create", "update", "done"}
         /\ ~NotFound(user[p])
         /\ pc[q] = "done"
         /\ Covers(res[q], userId[p])) =>
            \/ SameRoles(Observed(res[q], userId[p]), user[p].roles)
            \/ SameRoles(Observed(res[q], userId[p]), roles[p])

\* C9: two updateUser calls on the same user, with role lists R1 and R2,
\* running at the same time, end with exactly R1 or exactly R2 stored.
C9_ConcurrentReplaceNotMixed ==
    \A p \in Procs, q \in Procs :
        (/\ p # q
         /\ Succeeded(p) /\ Succeeded(q)
         /\ userId[p] = userId[q]
         /\ roles[p] # <<>> /\ roles[q] # <<>>) =>
            \/ SameRoles(UserRole[userId[p]], roles[p])
            \/ SameRoles(UserRole[userId[p]], roles[q])

\* C10: when delete_many or a create fails inside updateUser, the call
\* answers with success = False and the stored roles are those the user
\* held before the call.
C10_FailedReplaceRolledBack ==
    \A p \in Procs :
        (/\ pc[p] = "done"
         /\ ~NotFound(user[p])
         /\ res[p] \in {ErrorResponse("delete_many"), ErrorResponse("create")}) =>
            /\ SameRoles(UserRole[userId[p]], user[p].roles)
            /\ res[p].kind = "UpdateUserResponse"
            /\ ~res[p].success

\* C11: on a successful updateUser, updatedFields has the "email" key
\* exactly when a non-empty email was given and the "roles" key exactly when
\* a non-empty role list was given.
C11_UpdatedFieldsEchoSupplied ==
    \A p \in Procs :
        Succeeded(p) =>
            /\ "email" \in res[p].updatedFields.keys <=> Truthy(email[p])
            /\ "roles" \in res[p].updatedFields.keys <=> roles[p] # <<>>

\* The endpoints of the configured providers, in list order.
ConfiguredEndpoints == [k \in DOMAIN JokeSource |-> JokeSource[k].endpoint]

\* C12: within one fetchRandomJoke the Joke table is queried at most once,
\* and only when every configured provider has been requested, in list
\* order, and has failed; once it has been queried no provider is requested
\* any more (the call is over), and no provider's joke is the result.
C12_LocalStoreLastResort ==
    local_queries > 0 =>
        /\ local_queries = 1
        /\ requested = ConfiguredEndpoints
        /\ \A k \in DOMAIN JokeSource : Attempt(Answer(k)).kind = "caught"
        /\ NoProviderSucceeds
        /\ jpc = "done"
        /\ outcome.kind = "return" =>
              \E r \in DOMAIN Joke :
                  outcome = Returned(Joke[r].content, Joke[r].source)

\* C12 witness: two or more providers were requested, all failed, and the
\* Joke table was then queried and gave the result.
C12_Witness ==
    /\ local_queries = 1
    /\ Len(requested) >= 2
    /\ outcome.kind = "return"

(***************************************************************************)
(* Two updateUser calls in flight on two different users, their store      *)
(* calls interleaved in any order, every store call answering.             *)
(***************************************************************************)

\* The two users: the call of handler p1 names u1, that of p2 names u2.
Target(p) == IF p = "p1" THEN "u1" ELSE "u2"

OtherUser(p) == userId'[p] = Target(p)

DisjointNext ==
    \E p \in Procs :
        \/ CallUpdateUser(p) /\ OtherUser(p)
        \/ FindUser(p)
        \/ DeleteRoles(p)
        \/ CreateRole(p)
        \/ UpdateEmail(p)

DisjointSpec == Init /\ [][DisjointNext]_vars

\* The store rows of user u.
Rows(u) == <<UserRole[u], IF u \in DOMAIN User THEN User[u] ELSE NULL>>

\* What the rows of p's user are when p's call has run to its end with no
\* other request in flight, from the rows it found.
RanAlone(p) ==
    <<IF roles[p] = <<>> THEN user[p].roles ELSE roles[p],
      IF Truthy(email[p]) THEN email[p] ELSE user[p].email>>

\* A step of handler p.
StepOf(p) == pc'[p] # pc[p]

\* C13: a step of updateUser on user u changes no row of any other user,
\* and when two calls on different users have both ended, each user's rows
\* are what that user's call leaves when it runs alone, whatever the
\* interleaving.
C13_OtherUsersUntouched ==
    /\ [][\A p \in Procs : StepOf(p) =>
              \A u \in UserIds \ {userId'[p]} :
                  /\ UserRole'[u] = UserRole[u]
                  /\ u \in DOMAIN User => User'[u] = User[u]]_vars
    /\ [](\A p \in Procs :
              (pc[p] = "done" /\ ~NotFound(user[p])) =>
                  Rows(userId[p]) = RanAlone(p))

\* C13 witness: both calls have replaced roles and changed the email, each
\* of its own user, and both have ended with success.
C13_Witness ==
    /\ \A p \in Procs :
          /\ Succeeded(p)
          /\ Len(roles[p]) = 2
          /\ Truthy(email[p])
          /\ user[p].roles # roles[p]
    /\ userId["p1"] # userId["p2"]

====
